---------------------------- MODULE Spec2Model ----------------------------
(***************************************************************************)
(* Model of the Corabastos price API (Next.js route handlers):             *)
(*   - parseTableRow / isNewSection / extractPrices: the table parser      *)
(*   - extractDate and the single-day GET handler                          *)
(*   - the range (history) GET handler with its batches of per-day tasks   *)
(*                                                                         *)
(* Strings are sequences of one-character strings, so that the regular     *)
(* expressions, indexOf/lastIndexOf, trim and split of the source are      *)
(* computed character by character.  String positions are 0-based as in    *)
(* JavaScript; -1 is "not found"; NULL is JavaScript's null.               *)
(***************************************************************************)
EXTENDS Integers, Sequences, FiniteSets, TLC

VARIABLES
    \* --- parseTableRow driver
    rowPre, rowPrices, rowTail, rowSep, rowLine, rowResult,
    \* --- extractPrices
    text, lines, i, inTable, headerFound, headerLines, productos, scanPc,
    paths,
    \* --- GET handlers
    mode, fromParam, toParam, dateParam, today,
    apiPc, dates, batchStart, tasks, summary, totalProductos, response,
    fetchCalls, extractCalls,
    \* --- extractDate driver
    dateParts, dateSep, dateText, dateResult

rowVars == <<rowPre, rowPrices, rowTail, rowSep, rowLine, rowResult>>
scanVars == <<text, lines, i, inTable, headerFound, headerLines, productos,
              scanPc, paths>>
apiVars == <<mode, fromParam, toParam, dateParam, today, apiPc, dates,
             batchStart, tasks, summary, totalProductos, response, fetchCalls,
             extractCalls>>
dateVars == <<dateParts, dateSep, dateText, dateResult>>
vars == <<rowVars, scanVars, apiVars, dateVars>>

\* null where a record is expected (parseTableRow's "no match")
NULL == [null |-> TRUE]
\* null where a string is expected (a missing query parameter, extractDate)
NullStr == <<"null">>

(***************************************************************************)
(* Characters and basic string functions                                   *)
(***************************************************************************)
Digits == {"0", "1", "2", "3", "4", "5", "6", "7", "8", "9"}

\* \s of the regular expressions, and what trim() removes
IsSpace(c) == c \in {" ", "\t", "\n"}

\* the letters toLowerCase changes
LowerMap ==
    ("A" :> "a") @@ ("B" :> "b") @@ ("C" :> "c") @@ ("D" :> "d")
    @@ ("E" :> "e") @@ ("F" :> "f") @@ ("G" :> "g") @@ ("H" :> "h")
    @@ ("I" :> "i") @@ ("J" :> "j") @@ ("K" :> "k") @@ ("L" :> "l")
    @@ ("M" :> "m") @@ ("N" :> "n") @@ ("O" :> "o") @@ ("P" :> "p")
    @@ ("Q" :> "q") @@ ("R" :> "r") @@ ("S" :> "s") @@ ("T" :> "t")
    @@ ("U" :> "u") @@ ("V" :> "v") @@ ("W" :> "w") @@ ("X" :> "x")
    @@ ("Y" :> "y") @@ ("Z" :> "z") @@ ("Á" :> "á") @@ ("É" :> "é")
    @@ ("Í" :> "í") @@ ("Ó" :> "ó") @@ ("Ú" :> "ú") @@ ("Ñ" :> "ñ")

\* String.prototype.toLowerCase, one character
LowerChar(c) == IF c \in DOMAIN LowerMap THEN LowerMap[c] ELSE c

toLowerCase(s) == [k \in 1..Len(s) |-> LowerChar(s[k])]

\* s.substring(a, b), 0-based, b exclusive
substring(s, a, b) == SubSeq(s, a + 1, b)

\* does sub occur in s at 0-based position p
OccursAt(s, sub, p) ==
    /\ p >= 0
    /\ p + Len(sub) <= Len(s)
    /\ \A k \in 1..Len(sub) : s[p + k] = sub[k]

RECURSIVE indexFrom(_, _, _)
indexFrom(s, sub, p) ==
    IF p + Len(sub) > Len(s) THEN -1
    ELSE IF OccursAt(s, sub, p) THEN p
    ELSE indexFrom(s, sub, p + 1)

\* s.indexOf(sub): the first position, or -1
indexOf(s, sub) == indexFrom(s, sub, 0)

RECURSIVE lastIndexFrom(_, _, _)
lastIndexFrom(s, sub, p) ==
    IF p < 0 THEN -1
    ELSE IF OccursAt(s, sub, p) THEN p
    ELSE lastIndexFrom(s, sub, p - 1)

\* lastIndexOf that finds the first position
lastIndexOf_First(s, sub) == indexFrom(s, sub, 0)

\* s.lastIndexOf(sub): the last position, or -1
lastIndexOf(s, sub) == lastIndexFrom(s, sub, Len(s) - Len(sub))

\* s.includes(sub)
includes(s, sub) == \E p \in 0..(Len(s) - Len(sub)) : OccursAt(s, sub, p)

RECURSIVE trimStart(_)
trimStart(s) ==
    IF s # <<>> /\ IsSpace(Head(s)) THEN trimStart(Tail(s)) ELSE s

RECURSIVE trimEnd(_)
trimEnd(s) ==
    IF s # <<>> /\ IsSpace(s[Len(s)])
    THEN trimEnd(SubSeq(s, 1, Len(s) - 1))
    ELSE s

\* s.trim()
trim(s) == trimEnd(trimStart(s))

\* s.replace(/\s+/g, ' '): every run of whitespace becomes one space (the
\* first character of each run is kept, as a space)
collapseSpaces(s) ==
    LET kept == SelectSeq([k \in 1..Len(s) |-> k],
                          LAMBDA k : ~IsSpace(s[k]) \/ k = 1 \/ ~IsSpace(s[k - 1]))
    IN  [j \in 1..Len(kept) |-> IF IsSpace(s[kept[j]]) THEN " " ELSE s[kept[j]]]

\* the last position of the whitespace run that starts at p
RECURSIVE spaceRunEnd(_, _)
spaceRunEnd(s, p) ==
    IF p + 1 <= Len(s) /\ IsSpace(s[p + 1]) THEN spaceRunEnd(s, p + 1) ELSE p

\* s.split(/\s+/): the pieces between whitespace runs; "" splits to [""]
splitSpaces(s) ==
    LET starts == SelectSeq([k \in 1..Len(s) |-> k],
                            LAMBDA k : IsSpace(s[k]) /\ (k = 1 \/ ~IsSpace(s[k - 1])))
        n == Len(starts)
    IN  [j \in 1..(n + 1) |->
            SubSeq(s,
                   IF j = 1 THEN 1 ELSE spaceRunEnd(s, starts[j - 1]) + 1,
                   IF j = n + 1 THEN Len(s) ELSE starts[j] - 1)]

\* parts.join(sep)
RECURSIVE join(_, _)
join(parts, sep) ==
    IF parts = <<>> THEN <<>>
    ELSE IF Len(parts) = 1 THEN parts[1]
    ELSE parts[1] \o sep \o join(Tail(parts), sep)

(***************************************************************************)
(* parseTableRow                                                           *)
(***************************************************************************)
\* [\d.,] of pricePattern
PriceChars == Digits \cup {".", ","}

\* the end (last 1-based position) of the run of [\d.,] that starts at p
RECURSIVE priceRunEnd(_, _)
priceRunEnd(s, p) ==
    IF p + 1 <= Len(s) /\ s[p + 1] \in PriceChars
    THEN priceRunEnd(s, p + 1)
    ELSE p

\* normalized.match(/\$[\d.,]+/g) from 1-based position p on: the matches,
\* left to right, each greedy (<<>> stands for the null of "no match")
RECURSIVE matchPrices(_, _)
matchPrices(s, p) ==
    IF p > Len(s) THEN <<>>
    ELSE IF s[p] = "$" /\ p + 1 <= Len(s) /\ s[p + 1] \in PriceChars
         THEN LET e == priceRunEnd(s, p + 1)
              IN  <<SubSeq(s, p, e)>> \o matchPrices(s, e + 1)
         ELSE matchPrices(s, p + 1)

\* price.replace(/[$,.]/g, '')
digitsOnly(price) == SelectSeq(price, LAMBDA c : c \notin {"$", ",", "."})

\* isValidPrice with the threshold at 2 digits
isValidPrice_TwoDigits(price) == Len(digitsOnly(price)) >= 2

\* the filter of validPrices: at least 4 digits
isValidPrice(price) == Len(digitsOnly(price)) >= 4

validPricesOf(normalized) == SelectSeq(matchPrices(normalized, 1), isValidPrice)

\* cleanPrice that also drops the grouping separators
cleanPrice_DropSeparators(price) == digitsOnly(price)

\* price.replace('$', '').trim(): the first "$" only
cleanPrice(price) ==
    LET k == indexOf(price, <<"$">>)
    IN  trim(IF k = -1 THEN price
             ELSE substring(price, 0, k) \o substring(price, k + 1, Len(price)))

\* /^\d+$/.test(quantity)
isAllDigits(q) == q # <<>> /\ \A k \in 1..Len(q) : q[k] \in Digits

parseTableRow(line) ==
    LET normalized == trim(collapseSpaces(line))
        validPrices == validPricesOf(normalized)
    IN
    IF Len(validPrices) < 3 THEN NULL
    ELSE
    LET lastThreePrices == SubSeq(validPrices, Len(validPrices) - 2, Len(validPrices))
        firstPriceIndex == indexOf(normalized, lastThreePrices[1])
    IN
    IF firstPriceIndex = -1 THEN NULL
    ELSE
    LET beforePrices == trim(substring(normalized, 0, firstPriceIndex))
        beforeParts == splitSpaces(beforePrices)
        lastPriceIndex == lastIndexOf(normalized, lastThreePrices[3])
        afterLastPrice ==
            trim(substring(normalized, lastPriceIndex + Len(lastThreePrices[3]),
                           Len(normalized)))
        variation == afterLastPrice
        n == Len(beforeParts)
    IN
    IF n < 4 THEN NULL
    ELSE
    LET unit == beforeParts[n]
        quantity == beforeParts[n - 1]
        presentation == beforeParts[n - 2]
        name == join(SubSeq(beforeParts, 1, n - 3), <<" ">>)
    IN
    IF name = <<>> \/ presentation = <<>> \/ ~isAllDigits(quantity) \/ unit = <<>>
    THEN NULL
    ELSE [name |-> trim(name),
          presentation |-> trim(presentation),
          quantity |-> trim(quantity),
          unit |-> trim(unit),
          extraQualityPrice |-> <<"$">> \o cleanPrice(lastThreePrices[1]),
          firstQualityPrice |-> <<"$">> \o cleanPrice(lastThreePrices[2]),
          unitPrice |-> <<"$">> \o cleanPrice(lastThreePrices[3]),
          previousDayVariation |->
              IF trim(variation) = <<>> THEN <<"N", "/", "A">> ELSE trim(variation)]

\* isNewSection: /^página/i, /^total/i, /^resumen/i, /^nota/i, /^fuente/i
sectionIndicators ==
    { <<"p", "á", "g", "i", "n", "a">>, <<"t", "o", "t", "a", "l">>,
      <<"r", "e", "s", "u", "m", "e", "n">>, <<"n", "o", "t", "a">>,
      <<"f", "u", "e", "n", "t", "e">> }

\* isNewSection that knows only the first indicator
isNewSection_PageOnly(line) ==
    OccursAt(toLowerCase(line), <<"p", "á", "g", "i", "n", "a">>, 0)

isNewSection(line) ==
    LET lower == toLowerCase(line)
    IN  \E ind \in sectionIndicators : OccursAt(lower, ind, 0)

(***************************************************************************)
(* Driver of parseTableRow: one call on a line built from                  *)
(* rowPre ++ rowPrices ++ rowTail, joined by rowSep                        *)
(***************************************************************************)
MaxPre == 4
MaxPrices == 3

wKILO == <<"K", "I", "L", "O">>
w12 == <<"1", "2">>
p1000 == <<"$", "1", ",", "0", "0", "0">>
p2500 == <<"$", "2", ".", "5", "0", "0">>
p12 == <<"$", "1", "2">>
wEstable == <<"E", "s", "t", "a", "b", "l", "e">>

\* tokens before the prices: a word, a number, a price-like token
WordPool == {wKILO, w12, p1000}
\* price column tokens: two valid ones and one with fewer than 4 digits
PricePool == {p1000, p2500, p12}
\* the variation text, as a sequence of words
TailPool == {<<>>, <<wEstable>>}
\* the whitespace between two tokens
SepPool == {<<" ">>, <<" ", "\t">>}

SeqsUpTo(S, n) == UNION {[1..k -> S] : k \in 0..n}

RowInit ==
    /\ rowPre \in SeqsUpTo(WordPool, MaxPre)
    /\ rowPrices \in SeqsUpTo(PricePool, MaxPrices)
    /\ rowTail \in TailPool
    /\ rowSep \in SepPool
    /\ rowLine = join(rowPre \o rowPrices \o rowTail, rowSep)
    /\ rowResult = <<>>

\* const row = parseTableRow(line)
ParseRow ==
    /\ rowResult = <<>>
    /\ rowResult' = <<parseTableRow(rowLine)>>
    /\ UNCHANGED <<rowPre, rowPrices, rowTail, rowSep, rowLine>>

(***************************************************************************)
(* The lines the bulletin texts of the model are made of                   *)
(***************************************************************************)
\* raw lines (before trim) a bulletin text is made of
hFull ==
    <<"N", "o", "m", "b", "r", "e", " ", "P", "r", "e", "s", "e", "n", "t",
      "a", "c", "i", "ó", "n", " ", "C", "a", "n", "t", "i", "d", "a", "d">>
hNombre ==
    <<"N", "O", "M", "B", "R", "E">>
hPresentacion ==
    <<"p", "r", "e", "s", "e", "n", "t", "a", "c", "i", "ó", "n">>
hCantidad ==
    <<"C", "a", "n", "t", "i", "d", "a", "d">>
hPresCant ==
    <<"P", "r", "e", "s", "e", "n", "t", "a", "c", "i", "ó", "n", " ", "C",
      "a", "n", "t", "i", "d", "a", "d">>
rowHeaderLike ==
    <<"N", "o", "m", "b", "r", "e", " ", "C", "a", "n", "t", "i", "d", "a",
      "d", " ", "P", "r", "e", "c", "i", "o", " ", "1", " ", "K", "I", "L",
      "O", " ", "$", "9", ",", "0", "0", "0", " ", "$", "9", ",", "0", "0",
      "0", " ", "$", "9", ",", "0", "0", "0">>
rowValenton ==
    <<"V", "A", "L", "E", "N", "T", "O", "N", " ", "K", "I", "L", "O", " ",
      "1", " ", "K", "I", "L", "O", " ", "$", "3", "5", ",", "0", "0", "0",
      " ", "$", "3", "5", ",", "0", "0", "0", " ", "$", "3", "5", ",", "0",
      "0", "0", " ", "E", "s", "t", "a", "b", "l", "e">>
rowTomate ==
    <<"T", "O", "M", "A", "T", "E", " ", "C", "H", "O", "N", "T", "O", " ",
      "K", "I", "L", "O", " ", "2", " ", "K", "I", "L", "O", " ", "$", "3",
      ",", "0", "0", "0", " ", "$", "3", ",", "1", "0", "0", " ", "$", "3",
      ",", "2", "0", "0">>
rowPapaExtra ==
    <<"P", "A", "P", "A", " ", "E", "X", "T", "R", "A", " ", "B", "U", "L",
      "T", "O", " ", "5", "0", " ", "K", "I", "L", "O", " ", "$", "8", "0",
      ",", "0", "0", "0", " ", "$", "7", "5", ",", "0", "0", "0", " ", "$",
      "1", ",", "6", "0", "0", " ", "B", "a", "j", "a">>
markTotal ==
    <<" ", " ", "T", "o", "t", "a", "l", " ">>
markTotalPrecio ==
    <<"T", "O", "T", "A", "L", " ", "P", "R", "E", "C", "I", "O">>
markTotalRow ==
    <<"T", "o", "t", "a", "l", " ", "K", "I", "L", "O", " ", "1", " ", "K",
      "I", "L", "O", " ", "$", "1", ",", "0", "0", "0", " ", "$", "1", ",",
      "0", "0", "0", " ", "$", "1", ",", "0", "0", "0">>
noiseLine ==
    <<"C", "o", "r", "a", "b", "a", "s", "t", "o", "s">>
blankLine ==
    <<" ", " ">>

ScanPool ==
    { hFull, hNombre, hPresentacion, hCantidad, hPresCant, rowHeaderLike,
      rowValenton, rowTomate, rowPapaExtra, markTotal, markTotalPrecio,
      markTotalRow, noiseLine, blankLine }

(***************************************************************************)
(* extractPrices                                                           *)
(***************************************************************************)
headerKeywords ==
    { <<"n", "o", "m", "b", "r", "e">>,
      <<"p", "r", "e", "s", "e", "n", "t", "a", "c", "i", "ó", "n">>,
      <<"c", "a", "n", "t", "i", "d", "a", "d">>,
      <<"u", "n", "i", "d", "a", "d">>,
      <<"m", "e", "d", "i", "d", "a">>,
      <<"p", "r", "e", "c", "i", "o">>,
      <<"c", "a", "l", "i", "d", "a", "d">>,
      <<"e", "x", "t", "r", "a">>,
      <<"p", "r", "i", "m", "e", "r", "a">>,
      <<"u", "n", "i", "d", "a", "d">>,
      <<"v", "a", "r", "i", "a", "c", "i", "ó", "n">>,
      <<"d", "í", "a">>,
      <<"a", "n", "t", "e", "r", "i", "o", "r">> }

requiredHeaderWords ==
    << <<"n", "o", "m", "b", "r", "e">>,
       <<"p", "r", "e", "s", "e", "n", "t", "a", "c", "i", "ó", "n">>,
       <<"c", "a", "n", "t", "i", "d", "a", "d">>,
       <<"p", "r", "e", "c", "i", "o">> >>

\* headerKeywords.some((keyword) => line.includes(keyword)), line lowercased
hasHeaderKeywordOf(originalLine) ==
    LET line == toLowerCase(originalLine)
    IN  \E keyword \in headerKeywords : includes(line, keyword)

\* hasHeaderKeywordOf of the pool's lines, computed once
PoolLines == {trim(l) : l \in ScanPool}
PoolKeywordLines == {l \in PoolLines : hasHeaderKeywordOf(l)}

\* const hasHeaderKeyword = ..., looked up for a line of the pool
hasHeaderKeywordAt(originalLine) ==
    IF originalLine \in PoolLines
    THEN originalLine \in PoolKeywordLines
    ELSE hasHeaderKeywordOf(originalLine)

\* foundRequiredWords that looks at the line just pushed only
foundRequiredWords_LastLineOnly(hdrLines) ==
    LET combinedHeaders == toLowerCase(hdrLines[Len(hdrLines)])
    IN  Cardinality({k \in 1..Len(requiredHeaderWords) :
                        includes(combinedHeaders, requiredHeaderWords[k])})

\* requiredHeaderWords.filter((word) => combinedHeaders.includes(word)).length
foundRequiredWords(hdrLines) ==
    LET combinedHeaders == toLowerCase(join(hdrLines, <<" ">>))
    IN  Cardinality({k \in 1..Len(requiredHeaderWords) :
                        includes(combinedHeaders, requiredHeaderWords[k])})

\* the number of required-word hits that makes the header found
HeaderQuorum == 3

\* text.split('\n').map(trim).filter(length > 0); the text is given as the
\* sequence of its '\n'-separated pieces
splitLines(txt) ==
    SelectSeq([k \in 1..Len(txt) |-> trim(txt[k])], LAMBDA l : Len(l) > 0)

\* the header branch without its !headerFound
headerBranch_IgnoreFound(st, hasHeaderKeyword) == hasHeaderKeyword

\* if (hasHeaderKeyword && !headerFound)
headerBranch(st, hasHeaderKeyword) == hasHeaderKeyword /\ ~st.headerFound

\* else if (headerFound && !inTable)
resetBranch(st) == st.headerFound /\ ~st.inTable

\* a table branch that is entered in every state
tableBranch_AnyState(st) == TRUE

\* if (headerFound && inTable)
tableBranch(st) == st.headerFound /\ st.inTable

\* the skip without its productos.length > 0
skipHeaderLine_Always(st, hasHeaderKeyword) == hasHeaderKeyword

\* if (hasHeaderKeyword && productos.length > 0)
skipHeaderLine(st, hasHeaderKeyword) == hasHeaderKeyword /\ Len(st.productos) > 0

\* if (lines[i].length === 0 || isNewSection(lines[i]))
isTableEnd(originalLine) == Len(originalLine) = 0 \/ isNewSection(originalLine)

\* One iteration of the for loop on originalLine, from scanner state st
\* (inTable, headerFound, headerLines, productos).  The field path names the
\* way taken through the body:
\*   "header"  quorum reached, continue
\*   "search"  header not found yet, nothing below runs
\*   "closed"  headerFound and not inTable: headerLines reset, nothing else
\*   "skip"    header keyword line inside the table with records, continue
\*   "row"     parseTableRow gave a record, pushed
\*   "end"     no record and the table's end: inTable = false
\*   "noise"   no record, not the table's end
scanStep(st, originalLine) ==
    LET hasHeaderKeyword == hasHeaderKeywordAt(originalLine)
        pushed == Append(st.headerLines, originalLine)
    IN
    IF headerBranch(st, hasHeaderKeyword) /\ foundRequiredWords(pushed) >= HeaderQuorum
    THEN [st EXCEPT !.headerLines = pushed, !.headerFound = TRUE,
                    !.inTable = TRUE, !.path = "header"]
    ELSE
    LET st1 == IF headerBranch(st, hasHeaderKeyword)
               THEN [st EXCEPT !.headerLines = pushed]
               ELSE IF resetBranch(st)
                    THEN [st EXCEPT !.headerLines = <<>>]
                    ELSE st
    IN
    IF ~tableBranch(st1)
    THEN [st1 EXCEPT !.path = IF st1.headerFound THEN "closed" ELSE "search"]
    ELSE IF skipHeaderLine(st1, hasHeaderKeyword)
    THEN [st1 EXCEPT !.path = "skip"]
    ELSE
    LET row == parseTableRow(originalLine)
    IN  IF row # NULL
        THEN [st1 EXCEPT !.productos = Append(st1.productos, row), !.path = "row"]
        ELSE IF isTableEnd(originalLine)
             THEN [st1 EXCEPT !.inTable = FALSE, !.path = "end"]
             ELSE [st1 EXCEPT !.path = "noise"]

scanStart ==
    [inTable |-> FALSE, headerFound |-> FALSE, headerLines |-> <<>>,
     productos |-> <<>>, path |-> "start"]

\* the scanner state after the loop has run over ls[1..k]
RECURSIVE scanFrom(_, _, _)
scanFrom(st, ls, k) ==
    IF k > Len(ls) THEN st ELSE scanFrom(scanStep(st, ls[k]), ls, k + 1)

\* extractPrices(text): the returned productos
extractPrices(txt) == scanFrom(scanStart, splitLines(txt), 1).productos

(***************************************************************************)
(* extractPrices as a state machine: one step per loop iteration           *)
(***************************************************************************)
MaxLines == 3

ScanInit ==
    /\ text \in SeqsUpTo(ScanPool, MaxLines)
    /\ lines = <<>>
    /\ i = 0
    /\ inTable = FALSE
    /\ headerFound = FALSE
    /\ headerLines = <<>>
    /\ productos = <<>>
    /\ paths = <<>>
    /\ scanPc = "split"

\* const lines = text.split('\n').map(...).filter(...)
SplitLines ==
    /\ scanPc = "split"
    /\ lines' = splitLines(text)
    /\ scanPc' = "loop"
    /\ UNCHANGED <<text, i, inTable, headerFound, headerLines, productos, paths>>

\* one iteration of for (let i = 0; i < lines.length; i++)
ScanLine ==
    /\ scanPc = "loop"
    /\ i < Len(lines)
    /\ LET st == scanStep([inTable |-> inTable, headerFound |-> headerFound,
                           headerLines |-> headerLines, productos |-> productos,
                           path |-> "start"], lines[i + 1])
       IN  /\ inTable' = st.inTable
           /\ headerFound' = st.headerFound
           /\ headerLines' = st.headerLines
           /\ productos' = st.productos
           /\ paths' = Append(paths, st.path)
    /\ i' = i + 1
    /\ UNCHANGED <<text, lines, scanPc>>

\* return productos
ScanReturn ==
    /\ scanPc = "loop"
    /\ i = Len(lines)
    /\ scanPc' = "done"
    /\ UNCHANGED <<text, lines, i, inTable, headerFound, headerLines, productos, paths>>

(***************************************************************************)
(* Dates: the Date objects of the handlers are days since 1970-01-01.      *)
(* new Date("YYYY-MM-DD") is UTC midnight of that day; the local getters   *)
(* (getFullYear, getMonth, getDate, setDate) are modelled for a process    *)
(* whose local time zone is UTC.                                           *)
(***************************************************************************)
\* the number a string of digits denotes
RECURSIVE digitsToInt(_)
digitsToInt(ds) ==
    IF ds = <<>> THEN 0
    ELSE 10 * digitsToInt(SubSeq(ds, 1, Len(ds) - 1))
         + (CHOOSE d \in 0..9 : ToString(d) = ds[Len(ds)])

\* String(n) for n >= 0
RECURSIVE intToDigits(_)
intToDigits(n) ==
    IF n < 10 THEN <<ToString(n)>>
    ELSE intToDigits(n \div 10) \o <<ToString(n % 10)>>

\* s.padStart(2, '0')
padStart2(ds) == IF Len(ds) < 2 THEN <<"0">> \o ds ELSE ds

\* the day number of a civil date (Date.UTC(y, m - 1, d) in days); d may
\* exceed the month's length and then runs into the next month
daysFromCivil(y, m, d) ==
    LET yy == IF m <= 2 THEN y - 1 ELSE y
        era == yy \div 400
        yoe == yy - era * 400
        mp == IF m > 2 THEN m - 3 ELSE m + 9
        doy == (153 * mp + 2) \div 5 + d - 1
        doe == yoe * 365 + yoe \div 4 - yoe \div 100 + doy
    IN  era * 146097 + doe - 719468

\* getFullYear / getMonth() + 1 / getDate of a day number
civilFromDays(z) ==
    LET zz == z + 719468
        era == zz \div 146097
        doe == zz - era * 146097
        yoe == (doe - doe \div 1460 + doe \div 36524 - doe \div 146096) \div 365
        doy == doe - (365 * yoe + yoe \div 4 - yoe \div 100)
        mp == (5 * doy + 2) \div 153
        d == doy - (153 * mp + 2) \div 5 + 1
        m == IF mp < 10 THEN mp + 3 ELSE mp - 9
    IN  [year |-> yoe + era * 400 + (IF m <= 2 THEN 1 ELSE 0), month |-> m, day |-> d]

\* dateRegex that accepts any separator character
dateRegexTest_AnySeparator(s) ==
    /\ Len(s) = 10
    /\ \A k \in {1, 2, 3, 4, 6, 7, 9, 10} : s[k] \in Digits

\* dateRegex.test(s): /^\d{4}-\d{2}-\d{2}$/
dateRegexTest(s) ==
    /\ Len(s) = 10
    /\ \A k \in {1, 2, 3, 4, 6, 7, 9, 10} : s[k] \in Digits
    /\ s[5] = "-"
    /\ s[8] = "-"

\* NaN of an invalid Date
NaN == -1

\* new Date(s).getTime() in days, for s that passed dateRegex: the month must
\* be 1..12 and the day 1..31, else the Date is invalid
newDate(s) ==
    LET y == digitsToInt(SubSeq(s, 1, 4))
        m == digitsToInt(SubSeq(s, 6, 7))
        d == digitsToInt(SubSeq(s, 9, 10))
    IN  IF m \in 1..12 /\ d \in 1..31 THEN daysFromCivil(y, m, d) ELSE NaN

\* `${year}-${month}-${day}` with month and day padded to 2
formatYmd(z) ==
    LET c == civilFromDays(z)
    IN  intToDigits(c.year) \o <<"-">> \o padStart2(intToDigits(c.month))
        \o <<"-">> \o padStart2(intToDigits(c.day))

\* the dates array: fromDate, +1 day, ... while currentDate <= toDate
RECURSIVE datesBetween(_, _)
datesBetween(currentDate, toDate) ==
    IF currentDate <= toDate
    THEN <<currentDate>> \o datesBetween(currentDate + 1, toDate)
    ELSE <<>>

(***************************************************************************)
(* extractDate                                                             *)
(***************************************************************************)
\* n digits at 0-based position p of s
digitsAt(s, p, n) ==
    /\ p >= 0
    /\ p + n <= Len(s)
    /\ \A k \in 1..n : s[p + k] \in Digits

charAt(s, p, c) == p >= 0 /\ p < Len(s) /\ s[p + 1] = c

\* /(\d{1,2})\/(\d{1,2})\/(\d{4})/ matched at position p with groups of a and
\* b digits
slashDateAt(s, p, a, b) ==
    /\ digitsAt(s, p, a)
    /\ charAt(s, p + a, "/")
    /\ digitsAt(s, p + a + 1, b)
    /\ charAt(s, p + a + 1 + b, "/")
    /\ digitsAt(s, p + a + b + 2, 4)

\* /(\d{4})-(\d{1,2})-(\d{1,2})/ matched at position p with groups of a and
\* b digits
isoDateAt(s, p, a, b) ==
    /\ digitsAt(s, p, 4)
    /\ charAt(s, p + 4, "-")
    /\ digitsAt(s, p + 5, a)
    /\ charAt(s, p + 5 + a, "-")
    /\ digitsAt(s, p + 6 + a, b)

\* the group widths in the order a greedy \d{1,2}\d{1,2} tries them
GreedyWidths == <<<<2, 2>>, <<2, 1>>, <<1, 2>>, <<1, 1>>>>

\* datePatterns[k] matched at position p with groups of a and b digits
patternAt(k, s, p, a, b) ==
    IF k = 0 THEN slashDateAt(s, p, a, b) ELSE isoDateAt(s, p, a, b)

\* text.match(datePatterns[k]): the leftmost position with a match and,
\* there, the first widths in greedy order; NULL when the pattern matches
\* nowhere
firstMatch(s, k) ==
    IF \E p \in 0..Len(s), w \in 1..4 : patternAt(k, s, p, GreedyWidths[w][1], GreedyWidths[w][2])
    THEN LET p == CHOOSE q \in 0..Len(s) :
                    /\ \E w \in 1..4 : patternAt(k, s, q, GreedyWidths[w][1], GreedyWidths[w][2])
                    /\ \A r \in 0..(q - 1), w \in 1..4 :
                          ~patternAt(k, s, r, GreedyWidths[w][1], GreedyWidths[w][2])
             w == CHOOSE v \in 1..4 :
                    /\ patternAt(k, s, p, GreedyWidths[v][1], GreedyWidths[v][2])
                    /\ \A u \in 1..(v - 1) :
                          ~patternAt(k, s, p, GreedyWidths[u][1], GreedyWidths[u][2])
         IN  [index |-> p, a |-> GreedyWidths[w][1], b |-> GreedyWidths[w][2]]
    ELSE NULL

\* extractDate(text): the patterns are tried in order; the third pattern
\* ("D de <month> de YYYY") has no branch that returns, so a text matched only
\* by it falls out of the loop to return null
extractDate(s) ==
    LET m1 == firstMatch(s, 0)
        m2 == firstMatch(s, 1)
    IN  IF m1 # NULL
        THEN substring(s, m1.index + m1.a + m1.b + 2, m1.index + m1.a + m1.b + 6)
             \o <<"-">>
             \o padStart2(substring(s, m1.index + m1.a + 1, m1.index + m1.a + 1 + m1.b))
             \o <<"-">>
             \o padStart2(substring(s, m1.index, m1.index + m1.a))
        ELSE IF m2 # NULL
        THEN substring(s, m2.index, m2.index + 6 + m2.a + m2.b)
        ELSE NullStr

(***************************************************************************)
(* extractDate on texts made of a few words and dates                      *)
(***************************************************************************)
MaxDateParts == 2

tBogota == <<"B", "o", "g", "o", "t", "á">>
tNumber == <<"1", "2">>
tSlash == <<"2", "1", "/", "1", "1", "/", "2", "0", "2", "5">>
tSlashShort == <<"5", "/", "1", "/", "2", "0", "2", "5">>
tIso == <<"2", "0", "2", "5", "-", "1", "1", "-", "2", "0">>
tIsoShort == <<"2", "0", "2", "5", "-", "1", "-", "5">>
tDeMonth ==
    <<"5", " ", "d", "e", " ", "e", "n", "e", "r", "o", " ", "d", "e", " ", "2", "0", "2", "5">>

\* the pieces of a text: words without a date and dates of each shape
DatePartPool == {tBogota, tNumber, tSlash, tSlashShort, tIso, tIsoShort, tDeMonth}
\* what stands between two pieces
DateSepPool == {<<" ">>, <<"\n">>}

DateInit ==
    /\ dateParts \in SeqsUpTo(DatePartPool, MaxDateParts)
    /\ dateSep \in DateSepPool
    /\ dateText = join(dateParts, dateSep)
    /\ dateResult = <<>>

\* extractDate(text)
ExtractDateCall ==
    /\ dateResult = <<>>
    /\ dateResult' = <<extractDate(dateText)>>
    /\ UNCHANGED <<dateParts, dateSep, dateText>>

(***************************************************************************)
(* The GET handlers.  mode = "range" is /api/prices/history, mode =        *)
(* "single" is /api/prices.  A response keeps its status and the fields    *)
(* the handler computes; the constant strings (fuente, error texts,        *)
(* message) and the productos array of the single-day response are left    *)
(* out.  fetchCalls and extractCalls count the calls of fetch and of       *)
(* extractPrices.                                                          *)
(***************************************************************************)
dSlash ==
    <<"2", "0", "2", "5", "/", "1", "1", "/", "2", "0">>
dBadMonth ==
    <<"2", "0", "2", "5", "-", "1", "3", "-", "4", "5">>
d1128 ==
    <<"2", "0", "2", "5", "-", "1", "1", "-", "2", "8">>
d1130 ==
    <<"2", "0", "2", "5", "-", "1", "1", "-", "3", "0">>
d1203 ==
    <<"2", "0", "2", "5", "-", "1", "2", "-", "0", "3">>
dateLine ==
    <<"B", "o", "g", "o", "t", "á", " ", "2", "1", "/", "1", "1", "/", "2",
      "0", "2", "5">>

\* what searchParams.get can give for from, to and date
ParamPool == {NullStr, <<>>, dSlash, dBadMonth, d1128, d1130, d1203}

\* new Date() of a single-day request without date
TodayPool == {daysFromCivil(2025, 11, 30), daysFromCivil(2026, 1, 5)}

\* the texts pdfParse can give, as their '\n'-separated pieces
docDated == <<dateLine, hFull, rowValenton, rowTomate>>
docPlain == <<hFull, rowValenton>>
DocPool == {docDated, docPlain}

\* extractPrices(text) of each text of the pool, computed once
ParsedDocs == {<<doc, extractPrices(doc)>> : doc \in DocPool}
productosOf(doc) == (CHOOSE pr \in ParsedDocs : pr[1] = doc)[2]

batchSize == 5

\* !param is false
truthy(param) == param # NullStr /\ param # <<>>

NoResponse == [status |-> 0]

ApiInit ==
    /\ mode \in {"range", "single"}
    /\ IF mode = "range"
       THEN /\ fromParam \in ParamPool
            /\ toParam \in ParamPool
            /\ dateParam = NullStr
            /\ today = NaN
       ELSE /\ fromParam = NullStr
            /\ toParam = NullStr
            /\ dateParam \in ParamPool
            /\ IF truthy(dateParam) THEN today = NaN ELSE today \in TodayPool
    /\ apiPc = "start"
    /\ dates = <<>>
    /\ batchStart = 0
    /\ tasks = <<>>
    /\ summary = <<>>
    /\ totalProductos = 0
    /\ response = NoResponse
    /\ fetchCalls = 0
    /\ extractCalls = 0

Respond(r) ==
    /\ response' = r
    /\ apiPc' = "done"

\* history GET, from its first line to the dates array (lines 95-142)
RangeValidate ==
    /\ mode = "range"
    /\ apiPc = "start"
    /\ IF ~truthy(fromParam) \/ ~truthy(toParam)
       THEN Respond([status |-> 400]) /\ UNCHANGED dates
       ELSE IF ~dateRegexTest(fromParam) \/ ~dateRegexTest(toParam)
       THEN Respond([status |-> 400]) /\ UNCHANGED dates
       ELSE IF newDate(fromParam) = NaN \/ newDate(toParam) = NaN
       THEN Respond([status |-> 400]) /\ UNCHANGED dates
       ELSE IF newDate(fromParam) > newDate(toParam)
       THEN Respond([status |-> 400]) /\ UNCHANGED dates
       ELSE /\ dates' = datesBetween(newDate(fromParam), newDate(toParam))
            /\ apiPc' = "batch"
            /\ UNCHANGED response
    /\ UNCHANGED <<mode, fromParam, toParam, dateParam, today, batchStart, tasks,
                   summary, totalProductos, fetchCalls, extractCalls>>

\* a slice that stops one short: dates.slice(i, i + batchSize - 1)
batchOf_OneShort(ds, start) ==
    SubSeq(ds, start + 1,
           IF start + batchSize - 1 < Len(ds) THEN start + batchSize - 1 ELSE Len(ds))

\* a slice that takes every remaining day: dates.slice(i)
batchOf_Rest(ds, start) == SubSeq(ds, start + 1, Len(ds))

\* dates.slice(i, i + batchSize)
batchOf(ds, start) ==
    SubSeq(ds, start + 1, IF start + batchSize < Len(ds) THEN start + batchSize ELSE Len(ds))

\* one round of the for loop up to its await: batch.map(async ...) runs every
\* task of the batch to its fetch
StartBatch ==
    /\ mode = "range"
    /\ apiPc = "batch"
    /\ batchStart < Len(dates)
    /\ LET batch == batchOf(dates, batchStart)
       IN  /\ tasks' = [k \in 1..Len(batch) |->
                            [date |-> batch[k], pc |-> "fetch", result |-> NULL]]
           /\ fetchCalls' = fetchCalls + Len(batch)
    /\ apiPc' = "await"
    /\ UNCHANGED <<mode, fromParam, toParam, dateParam, today, dates, batchStart,
                   summary, totalProductos, response, extractCalls>>

\* the DateSummary a task returns
DateSummary(date, n, status) ==
    [date |-> formatYmd(date), totalProductos |-> n, status |-> status]

\* a task returns its DateSummary: the promise is fulfilled
settled(task, n, status) ==
    [task EXCEPT !.pc = "done", !.result = DateSummary(task.date, n, status)]

\* await fetch(pdfUrl, ...) of task k settles: ok, !response.ok, or a
\* rejection (network error, or the abort of the 30 s timer)
TaskFetchSettles ==
    /\ mode = "range"
    /\ apiPc = "await"
    /\ \E k \in 1..Len(tasks), outcome \in {"ok", "notok", "reject"} :
          /\ tasks[k].pc = "fetch"
          /\ tasks' = [tasks EXCEPT ![k] =
                CASE outcome = "ok" -> [@ EXCEPT !.pc = "body"]
                  [] outcome = "notok" -> settled(@, 0, "not_found")
                  [] outcome = "reject" -> settled(@, 0, "error")]
    /\ UNCHANGED <<mode, fromParam, toParam, dateParam, today, apiPc, dates,
                   batchStart, summary, totalProductos, response, fetchCalls,
                   extractCalls>>

\* await response.arrayBuffer() of task k settles
TaskBodySettles ==
    /\ mode = "range"
    /\ apiPc = "await"
    /\ \E k \in 1..Len(tasks), outcome \in {"ok", "reject"} :
          /\ tasks[k].pc = "body"
          /\ tasks' = [tasks EXCEPT ![k] =
                IF outcome = "ok"
                THEN [@ EXCEPT !.pc = "parse"]
                ELSE settled(@, 0, "error")]
    /\ UNCHANGED <<mode, fromParam, toParam, dateParam, today, apiPc, dates,
                   batchStart, summary, totalProductos, response, fetchCalls,
                   extractCalls>>

\* await pdfParse(buffer) of task k gives a text: extractPrices, the shared
\* total, the success summary
TaskParsed ==
    /\ mode = "range"
    /\ apiPc = "await"
    /\ \E k \in 1..Len(tasks), doc \in DocPool :
          /\ tasks[k].pc = "parse"
          /\ LET found == productosOf(doc)
             IN  /\ totalProductos' = totalProductos + Len(found)
                 /\ tasks' = [tasks EXCEPT ![k] = settled(@, Len(found), "success")]
    /\ extractCalls' = extractCalls + 1
    /\ UNCHANGED <<mode, fromParam, toParam, dateParam, today, apiPc, dates,
                   batchStart, summary, response, fetchCalls>>

\* await pdfParse(buffer) of task k rejects: the catch
TaskParseFails ==
    /\ mode = "range"
    /\ apiPc = "await"
    /\ \E k \in 1..Len(tasks) :
          /\ tasks[k].pc = "parse"
          /\ tasks' = [tasks EXCEPT ![k] = settled(@, 0, "error")]
    /\ UNCHANGED <<mode, fromParam, toParam, dateParam, today, apiPc, dates,
                   batchStart, summary, totalProductos, response, fetchCalls,
                   extractCalls>>

\* Promise.allSettled resolves once every task of the batch is settled;
\* batchResults.forEach pushes the values in the batch's order; i += batchSize
JoinBatch ==
    /\ mode = "range"
    /\ apiPc = "await"
    /\ \A k \in 1..Len(tasks) : tasks[k].pc = "done"
    /\ summary' = summary \o [k \in 1..Len(tasks) |-> tasks[k].result]
    /\ batchStart' = batchStart + batchSize
    /\ tasks' = <<>>
    /\ apiPc' = "batch"
    /\ UNCHANGED <<mode, fromParam, toParam, dateParam, today, dates,
                   totalProductos, response, fetchCalls, extractCalls>>

\* summary.filter(s => s.status === 'success').length
successfulDaysOf(sumry) == Len(SelectSeq(sumry, LAMBDA e : e.status = "success"))

\* summary.filter(s => s.status !== 'success').length
failedDaysOf(sumry) == Len(SelectSeq(sumry, LAMBDA e : e.status # "success"))

\* after the loop: the counts and the 200 response
RangeRespond ==
    /\ mode = "range"
    /\ apiPc = "batch"
    /\ batchStart >= Len(dates)
    /\ Respond([status |-> 200,
                from |-> fromParam,
                to |-> toParam,
                totalDays |-> Len(dates),
                processedDays |-> Len(summary),
                successfulDays |-> successfulDaysOf(summary),
                failedDays |-> failedDaysOf(summary),
                totalProductos |-> totalProductos,
                summary |-> summary])
    /\ UNCHANGED <<mode, fromParam, toParam, dateParam, today, dates, batchStart,
                   tasks, summary, totalProductos, fetchCalls, extractCalls>>

\* single-day GET, from its first line to the fetch (part_000 lines 74-114)
SingleValidate ==
    /\ mode = "single"
    /\ apiPc = "start"
    /\ IF truthy(dateParam) /\ ~dateRegexTest(dateParam)
       THEN Respond([status |-> 400]) /\ UNCHANGED <<dates, fetchCalls>>
       ELSE IF truthy(dateParam) /\ newDate(dateParam) = NaN
       THEN Respond([status |-> 400]) /\ UNCHANGED <<dates, fetchCalls>>
       ELSE /\ dates' = <<IF truthy(dateParam) THEN newDate(dateParam) ELSE today>>
            /\ fetchCalls' = fetchCalls + 1
            /\ apiPc' = "fetch"
            /\ UNCHANGED response
    /\ UNCHANGED <<mode, fromParam, toParam, dateParam, today, batchStart, tasks,
                   summary, totalProductos, extractCalls>>

\* await fetch(pdfUrl) settles: ok, !response.ok (500), or a rejection (the
\* catch: 500)
SingleFetchSettles ==
    /\ mode = "single"
    /\ apiPc = "fetch"
    /\ \E outcome \in {"ok", "notok", "reject"} :
          IF outcome = "ok"
          THEN apiPc' = "body" /\ UNCHANGED response
          ELSE Respond([status |-> 500])
    /\ UNCHANGED <<mode, fromParam, toParam, dateParam, today, dates, batchStart,
                   tasks, summary, totalProductos, fetchCalls, extractCalls>>

\* await response.arrayBuffer() settles
SingleBodySettles ==
    /\ mode = "single"
    /\ apiPc = "body"
    /\ \E outcome \in {"ok", "reject"} :
          IF outcome = "ok"
          THEN apiPc' = "parse" /\ UNCHANGED response
          ELSE Respond([status |-> 500])
    /\ UNCHANGED <<mode, fromParam, toParam, dateParam, today, dates, batchStart,
                   tasks, summary, totalProductos, fetchCalls, extractCalls>>

\* extractDate(text) || `${year}-${month}-${day}`
fechaOf(txt, targetDate) ==
    LET extracted == extractDate(join(txt, <<"\n">>))
    IN  IF truthy(extracted) THEN extracted ELSE formatYmd(targetDate)

\* await pdfParse(buffer) gives a text: extractPrices, fecha, the 200 response
SingleParsed ==
    /\ mode = "single"
    /\ apiPc = "parse"
    /\ \E doc \in DocPool :
          Respond([status |-> 200,
                   fecha |-> fechaOf(doc, dates[1]),
                   totalProductos |-> Len(productosOf(doc))])
    /\ extractCalls' = extractCalls + 1
    /\ UNCHANGED <<mode, fromParam, toParam, dateParam, today, dates, batchStart,
                   tasks, summary, totalProductos, fetchCalls>>

\* await pdfParse(buffer) rejects: the catch, 500
SingleParseFails ==
    /\ mode = "single"
    /\ apiPc = "parse"
    /\ Respond([status |-> 500])
    /\ UNCHANGED <<mode, fromParam, toParam, dateParam, today, dates, batchStart,
                   tasks, summary, totalProductos, fetchCalls, extractCalls>>

(***************************************************************************)
(* Specifications.  Each one runs one part of the program and holds the    *)
(* variables of the other parts at rest.                                   *)
(***************************************************************************)
RowIdle ==
    /\ rowPre = <<>>
    /\ rowPrices = <<>>
    /\ rowTail = <<>>
    /\ rowSep = <<>>
    /\ rowLine = <<>>
    /\ rowResult = <<>>

ScanIdle ==
    /\ text = <<>>
    /\ lines = <<>>
    /\ i = 0
    /\ inTable = FALSE
    /\ headerFound = FALSE
    /\ headerLines = <<>>
    /\ productos = <<>>
    /\ paths = <<>>
    /\ scanPc = "idle"

ApiIdle ==
    /\ mode = "idle"
    /\ fromParam = NullStr
    /\ toParam = NullStr
    /\ dateParam = NullStr
    /\ today = NaN
    /\ apiPc = "idle"
    /\ dates = <<>>
    /\ batchStart = 0
    /\ tasks = <<>>
    /\ summary = <<>>
    /\ totalProductos = 0
    /\ response = NoResponse
    /\ fetchCalls = 0
    /\ extractCalls = 0

DateIdle ==
    /\ dateParts = <<>>
    /\ dateSep = <<>>
    /\ dateText = <<>>
    /\ dateResult = <<>>

\* parseTableRow alone
RowNext == ParseRow /\ UNCHANGED <<scanVars, apiVars, dateVars>>
InitRow == RowInit /\ ScanIdle /\ ApiIdle /\ DateIdle
SpecRow == InitRow /\ [][RowNext]_vars

\* extractPrices alone
ScanNext ==
    \/ SplitLines /\ UNCHANGED <<rowVars, apiVars, dateVars>>
    \/ ScanLine /\ UNCHANGED <<rowVars, apiVars, dateVars>>
    \/ ScanReturn /\ UNCHANGED <<rowVars, apiVars, dateVars>>
InitScan == ScanInit /\ RowIdle /\ ApiIdle /\ DateIdle
SpecScan == InitScan /\ [][ScanNext]_vars

\* the two GET handlers, one request
ApiNext ==
    \/ RangeValidate /\ UNCHANGED <<rowVars, scanVars, dateVars>>
    \/ StartBatch /\ UNCHANGED <<rowVars, scanVars, dateVars>>
    \/ TaskFetchSettles /\ UNCHANGED <<rowVars, scanVars, dateVars>>
    \/ TaskBodySettles /\ UNCHANGED <<rowVars, scanVars, dateVars>>
    \/ TaskParsed /\ UNCHANGED <<rowVars, scanVars, dateVars>>
    \/ TaskParseFails /\ UNCHANGED <<rowVars, scanVars, dateVars>>
    \/ JoinBatch /\ UNCHANGED <<rowVars, scanVars, dateVars>>
    \/ RangeRespond /\ UNCHANGED <<rowVars, scanVars, dateVars>>
    \/ SingleValidate /\ UNCHANGED <<rowVars, scanVars, dateVars>>
    \/ SingleFetchSettles /\ UNCHANGED <<rowVars, scanVars, dateVars>>
    \/ SingleBodySettles /\ UNCHANGED <<rowVars, scanVars, dateVars>>
    \/ SingleParsed /\ UNCHANGED <<rowVars, scanVars, dateVars>>
    \/ SingleParseFails /\ UNCHANGED <<rowVars, scanVars, dateVars>>
InitApi == ApiInit /\ RowIdle /\ ScanIdle /\ DateIdle
SpecApi == InitApi /\ [][ApiNext]_vars

\* extractDate alone
DateNext == ExtractDateCall /\ UNCHANGED <<rowVars, scanVars, apiVars>>
InitDate == DateInit /\ RowIdle /\ ScanIdle /\ ApiIdle
SpecDate == InitDate /\ [][DateNext]_vars

\* the whole program: any one of its parts
Init == InitRow \/ InitScan \/ InitApi \/ InitDate
Next == RowNext \/ ScanNext \/ ApiNext \/ DateNext
Spec == Init /\ [][Next]_vars

(***************************************************************************)
(* Properties of parseTableRow (SpecRow)                                   *)
(***************************************************************************)
\* The valid price tokens of a line, stated on the line itself: a token
\* starts at every "$" that is followed by a digit, comma or period, runs
\* over the following digits, commas and periods, and is valid when it holds
\* at least 4 digits.
TokenEnd(s, p) ==
    CHOOSE e \in p..Len(s) :
        /\ \A q \in (p + 1)..e : s[q] \in PriceChars
        /\ (e = Len(s) \/ s[e + 1] \notin PriceChars)

TokenAt(s, p) == SubSeq(s, p, TokenEnd(s, p))

ValidTokenStarts(s) ==
    {p \in 1..Len(s) :
        /\ s[p] = "$"
        /\ p < Len(s)
        /\ s[p + 1] \in PriceChars
        /\ Cardinality({q \in (p + 1)..TokenEnd(s, p) : s[q] \in Digits}) >= 4}

\* the k-th from last valid token start (k = 1 is the last)
FromLastStart(s, k) ==
    CHOOSE p \in ValidTokenStarts(s) :
        Cardinality({q \in ValidTokenStarts(s) : q > p}) = k - 1

RowParsed == rowResult # <<>> /\ rowResult[1] # NULL
RowRejected == rowResult # <<>> /\ rowResult[1] = NULL

\* C5: a line with fewer than 3 valid price tokens ("$" immediately followed
\* by digits/commas/periods, at least 4 digits) makes parseTableRow return
\* null.
C5_FewPricesNoMatch ==
    (rowResult # <<>> /\ Cardinality(ValidTokenStarts(rowLine)) < 3)
        => rowResult[1] = NULL

\* C5 witness: a line with four tokens before the prices and exactly two
\* valid price tokens (and a third, too short one) was rejected.
C5_Witness ==
    /\ RowRejected
    /\ Len(rowPre) = 4
    /\ isAllDigits(rowPre[3])
    /\ Cardinality(ValidTokenStarts(rowLine)) = 2
    /\ Len(rowPrices) = 3

\* C6: every record parseTableRow returns has an all-digit quantity,
\* non-empty name, presentation and unit, and its three price fields begin
\* with "$" and are, character for character, the last three valid price
\* tokens of the line in left-to-right order.
C6_RecordShape ==
    RowParsed =>
        LET r == rowResult[1]
        IN  /\ r.quantity # <<>>
            /\ \A k \in 1..Len(r.quantity) : r.quantity[k] \in Digits
            /\ r.name # <<>>
            /\ r.presentation # <<>>
            /\ r.unit # <<>>
            /\ Cardinality(ValidTokenStarts(rowLine)) >= 3
            /\ r.extraQualityPrice[1] = "$"
            /\ r.firstQualityPrice[1] = "$"
            /\ r.unitPrice[1] = "$"
            /\ r.extraQualityPrice = TokenAt(rowLine, FromLastStart(rowLine, 3))
            /\ r.firstQualityPrice = TokenAt(rowLine, FromLastStart(rowLine, 2))
            /\ r.unitPrice = TokenAt(rowLine, FromLastStart(rowLine, 1))

\* C6 witness: a record was made from a line with more than three valid
\* price tokens, two of the chosen ones with different separators.
C6_Witness ==
    /\ RowParsed
    /\ Cardinality(ValidTokenStarts(rowLine)) > 3
    /\ rowResult[1].extraQualityPrice = p2500
    /\ rowResult[1].unitPrice = p1000

\* the tokens of the line in order, and the positions of the valid price
\* tokens among them, stated on the tokens the line was built from
RowTokens == rowPre \o rowPrices \o rowTail
ValidPriceTokens == {p1000, p2500}
ValidPositions == {k \in 1..Len(RowTokens) : RowTokens[k] \in ValidPriceTokens}

\* the position of the k-th from last valid price token (k = 1 is the last)
FromLastPosition(k) ==
    CHOOSE p \in ValidPositions : Cardinality({q \in ValidPositions : q > p}) = k - 1

\* the tokens before the third-from-last valid price token, and those after
\* the last one
TokensBeforePrices == SubSeq(RowTokens, 1, FromLastPosition(3) - 1)
TokensAfterPrices == SubSeq(RowTokens, FromLastPosition(1) + 1, Len(RowTokens))

\* C15 as stated: on a line with more than three valid price tokens the
\* fields come from the tokens before the third-from-last valid price token,
\* taken at its own position: with at least 4 tokens there, the last but one
\* all digits, the record has unit, quantity and presentation from the last
\* three of them and the name from the rest (extra price tokens included,
\* also one equal to the first chosen price), and the variation is the text
\* after the last valid price token.
C15_ExtraTokensInName ==
    (rowResult # <<>> /\ Cardinality(ValidPositions) > 3) =>
        LET before == TokensBeforePrices
            n == Len(before)
            after == TokensAfterPrices
        IN  IF n >= 4 /\ before[n - 1] = w12
            THEN /\ rowResult[1] # NULL
                 /\ rowResult[1].unit = before[n]
                 /\ rowResult[1].quantity = before[n - 1]
                 /\ rowResult[1].presentation = before[n - 2]
                 /\ rowResult[1].name = join(SubSeq(before, 1, n - 3), <<" ">>)
                 /\ rowResult[1].previousDayVariation =
                        IF after = <<>> THEN <<"N", "/", "A">> ELSE join(after, <<" ">>)
            ELSE rowResult[1] = NULL

(***************************************************************************)
(* Properties of extractPrices (SpecScan).  What each line of the pool is  *)
(* (a marker, a keyword line, a row, which required words it carries) is   *)
(* written down here line by line, not computed by the parser's functions. *)
(***************************************************************************)
\* the trimmed lines that start with an end-of-section word
MarkerLines == {trim(markTotal), markTotalPrecio, markTotalRow}

\* the lines that contain a header keyword
KeywordLines ==
    {hFull, hNombre, hPresentacion, hCantidad, hPresCant, rowHeaderLike,
     rowPapaExtra, markTotalPrecio}

\* the lines the Row Parser accepts
RowLines == {rowHeaderLike, rowValenton, rowTomate, rowPapaExtra, markTotalRow}

\* the required header words a line contains
RequiredWordsIn(l) ==
    CASE l = hFull -> {"nombre", "presentación", "cantidad"}
      [] l = hNombre -> {"nombre"}
      [] l = hPresentacion -> {"presentación"}
      [] l = hCantidad -> {"cantidad"}
      [] l = hPresCant -> {"presentación", "cantidad"}
      [] l = rowHeaderLike -> {"nombre", "cantidad", "precio"}
      [] l = markTotalPrecio -> {"precio"}
      [] OTHER -> {}

\* the required words among the first n lines
RequiredSeen(n) == UNION {RequiredWordsIn(lines[j]) : j \in 1..n}

\* the step is one loop iteration, on line cur
IsScanStep == scanPc = "loop" /\ i' = i + 1
cur == lines[i + 1]

\* C1 as stated: every marker line read while the table is active closes the
\* table.
C1_Original ==
    [][(IsScanStep /\ headerFound /\ inTable /\ cur \in MarkerLines) => ~inTable']_vars

\* C1 amended: a marker line read while the table is active closes the table
\* unless it is skipped as a header-keyword line (a record exists already) or
\* the Row Parser accepts it as a row; and once the table is closed no later
\* line adds a record or reopens it.
C1_MarkerCloses ==
    [][IsScanStep =>
        /\ (/\ headerFound
            /\ inTable
            /\ cur \in MarkerLines
            /\ ~(cur \in KeywordLines /\ Len(productos) > 0)
            /\ cur \notin RowLines) => ~inTable'
        /\ (headerFound /\ ~inTable) => (~inTable' /\ productos' = productos)]_vars

\* C1 witness: "Total" closed the table and the valid row after it gave no
\* record.
C1_Witness ==
    /\ scanPc = "done"
    /\ lines = <<hFull, trim(markTotal), rowValenton>>
    /\ paths = <<"header", "end", "closed">>
    /\ ~inTable
    /\ productos = <<>>

\* C7: the header is found at the first line at which the lines read so far
\* carry at least 3 of the 4 required words between them, and at no other
\* line; three lines with one required word each do it on the third.
C7_HeaderQuorum ==
    scanPc \in {"loop", "done"} =>
        /\ headerFound <=> Cardinality(RequiredSeen(i)) >= 3
        /\ \A k \in 1..i :
              paths[k] = "header" <=>
                  /\ Cardinality(RequiredSeen(k)) >= 3
                  /\ Cardinality(RequiredSeen(k - 1)) < 3

\* C7 witness: nombre, presentación and cantidad on three lines; the header
\* is found on the third.
C7_Witness ==
    /\ scanPc = "done"
    /\ {lines[k] : k \in 1..Len(lines)} = {hNombre, hPresentacion, hCantidad}
    /\ paths = <<"search", "search", "header">>
    /\ headerFound
    /\ inTable

\* the record C8 expects of a row line
ExpectedRecord(l) ==
    IF l = rowValenton
    THEN [name |-> <<"V", "A", "L", "E", "N", "T", "O", "N">>,
          presentation |-> <<"K", "I", "L", "O">>,
          quantity |-> <<"1">>,
          unit |-> <<"K", "I", "L", "O">>,
          extraQualityPrice |-> <<"$", "3", "5", ",", "0", "0", "0">>,
          firstQualityPrice |-> <<"$", "3", "5", ",", "0", "0", "0">>,
          unitPrice |-> <<"$", "3", "5", ",", "0", "0", "0">>,
          previousDayVariation |-> <<"E", "s", "t", "a", "b", "l", "e">>]
    ELSE [name |-> <<"T", "O", "M", "A", "T", "E", " ", "C", "H", "O", "N", "T", "O">>,
          presentation |-> <<"K", "I", "L", "O">>,
          quantity |-> <<"2">>,
          unit |-> <<"K", "I", "L", "O">>,
          extraQualityPrice |-> <<"$", "3", ",", "0", "0", "0">>,
          firstQualityPrice |-> <<"$", "3", ",", "1", "0", "0">>,
          unitPrice |-> <<"$", "3", ",", "2", "0", "0">>,
          previousDayVariation |-> <<"N", "/", "A">>]

\* C8: a text whose header quorum is reached on its last line but one, with
\* a last line <name words> <presentation> <quantity> <unit> <3 prices>
\* [<variation>] without header keyword, gives exactly one record: the name
\* words joined by single spaces, the three tokens before the prices, the
\* prices in order, and the variation text or "N/A".
C8_EndToEnd ==
    (/\ scanPc = "done"
     /\ Len(lines) >= 2
     /\ Cardinality(RequiredSeen(Len(lines) - 1)) >= 3
     /\ Cardinality(RequiredSeen(Len(lines) - 2)) < 3
     /\ lines[Len(lines)] \in {rowValenton, rowTomate})
        => productos = <<ExpectedRecord(lines[Len(lines)])>>

\* C8 witness: the header line and the row without variation gave the one
\* record, with a two-word name and "N/A".
C8_Witness ==
    /\ scanPc = "done"
    /\ lines = <<hFull, rowTomate>>
    /\ Len(productos) = 1
    /\ productos[1].previousDayVariation = <<"N", "/", "A">>

\* C9: once the table is closed (headerFound and not inTable), every later
\* line leaves headerFound true, inTable false and the record list as it is.
C9_ClosedAbsorbing ==
    [][(headerFound /\ ~inTable) =>
            (headerFound' /\ ~inTable' /\ productos' = productos)]_vars

\* C9 witness: after the close, a complete header line and a valid row were
\* read; the table stayed closed.
C9_Witness ==
    /\ scanPc = "done"
    /\ Len(lines) = 3
    /\ lines[1] = hFull
    /\ lines[2] \in MarkerLines
    /\ lines[3] \in {hFull, rowValenton}
    /\ paths = <<"header", "end", "closed">>
    /\ headerFound
    /\ ~inTable

\* C10: in the active table a line with a header keyword is skipped when a
\* record exists (no parse, no record, headerFound, inTable and the records
\* unchanged, even for a row or a marker); with no record yet it goes to the
\* Row Parser, which adds its record or, for a marker, closes the table.
C10_HeaderLineSkipped ==
    [][(IsScanStep /\ headerFound /\ inTable /\ cur \in KeywordLines) =>
        IF Len(productos) > 0
        THEN /\ paths'[i + 1] = "skip"
             /\ UNCHANGED <<headerFound, inTable, productos>>
        ELSE /\ paths'[i + 1] \in {"row", "end", "noise"}
             /\ headerFound'
             /\ Len(productos') = IF cur \in RowLines THEN 1 ELSE 0
             /\ inTable' <=> (cur \in RowLines \/ cur \notin MarkerLines)]_vars

\* C10 witness: after one record, a keyword line that would parse as a row
\* was skipped.
C10_Witness ==
    /\ scanPc = "done"
    /\ lines = <<hFull, rowValenton, rowPapaExtra>>
    /\ paths = <<"header", "row", "skip">>
    /\ Len(productos) = 1
    /\ inTable

\* C11: a record is appended only for a line read strictly after the line
\* on which the header quorum was reached: a step that adds a record reads a
\* line whose predecessors already carry 3 required words, so no earlier line
\* and not the quorum line itself gives a record even when the Row Parser
\* accepts it; a text in which the quorum is never reached returns the empty
\* list.
C11_RecordsAfterQuorum ==
    /\ [][(IsScanStep /\ productos' # productos)
              => Cardinality(RequiredSeen(i)) >= 3]_vars
    /\ []((scanPc = "done" /\ Cardinality(RequiredSeen(Len(lines))) < 3)
              => productos = <<>>)

\* C11 witness: a valid row before the header, a quorum line that is itself
\* a valid row, and a row after it; only the last one gave a record.
C11_Witness ==
    /\ scanPc = "done"
    /\ lines = <<rowValenton, rowHeaderLike, rowTomate>>
    /\ paths = <<"search", "header", "row">>
    /\ productos = <<ExpectedRecord(rowTomate)>>

\* C12 as stated: while the header has not been found, a line without header
\* keyword read after partial accumulation empties the header buffer, so the
\* required words seen before it no longer count toward the quorum.
C12_ResetBeforeFound ==
    [][(/\ IsScanStep
        /\ ~headerFound
        /\ headerLines # <<>>
        /\ cur \notin KeywordLines) => headerLines' = <<>>]_vars

(***************************************************************************)
(* Properties of the GET handlers (SpecApi).  The days of each range of    *)
(* the pool are written down here, not computed by the date functions.     *)
(***************************************************************************)
d1129 == <<"2", "0", "2", "5", "-", "1", "1", "-", "2", "9">>
d1201 == <<"2", "0", "2", "5", "-", "1", "2", "-", "0", "1">>
d1202 == <<"2", "0", "2", "5", "-", "1", "2", "-", "0", "2">>

\* the days from 2025-11-28 to 2025-12-03
PoolDays == <<d1128, d1129, d1130, d1201, d1202, d1203>>

PoolIndex(d) == CHOOSE k \in 1..Len(PoolDays) : PoolDays[k] = d

ValidDates == {d1128, d1130, d1203}

\* from and to are dates and from is not after to
ValidRange(f, t) ==
    /\ f \in ValidDates
    /\ t \in ValidDates
    /\ PoolIndex(f) <= PoolIndex(t)

\* the days of [f, t], in order
DaysOfRange(f, t) == SubSeq(PoolDays, PoolIndex(f), PoolIndex(t))

RECURSIVE SumOfSuccess(_)
SumOfSuccess(sumry) ==
    IF sumry = <<>> THEN 0
    ELSE (IF Head(sumry).status = "success" THEN Head(sumry).totalProductos ELSE 0)
         + SumOfSuccess(Tail(sumry))

RangeDone == mode = "range" /\ apiPc = "done"

IsMissing(param) == param \in {NullStr, <<>>}

\* from or to is missing or not YYYY-MM-DD, or from is after to
BadRange(f, t) ==
    \/ IsMissing(f)
    \/ IsMissing(t)
    \/ f = dSlash
    \/ t = dSlash
    \/ (f \in ValidDates /\ t \in ValidDates /\ PoolIndex(f) > PoolIndex(t))

\* C3: a range request with from or to missing or malformed, or from after
\* to, and a single-day request with a malformed date, are answered with 400;
\* a 400 answer comes before any fetch and any call of extractPrices.
C3_RejectedBeforeFetch ==
    /\ (RangeDone /\ BadRange(fromParam, toParam)) => response.status = 400
    /\ (mode = "single" /\ apiPc = "done" /\ dateParam = dSlash)
          => response.status = 400
    /\ response.status = 400 => (fetchCalls = 0 /\ extractCalls = 0)
    /\ (mode = "range" /\ BadRange(fromParam, toParam))
          => (fetchCalls = 0 /\ extractCalls = 0)
    /\ (mode = "single" /\ dateParam = dSlash)
          => (fetchCalls = 0 /\ extractCalls = 0)

\* C3 witness: from=2025/11/20 with a good to was answered 400.
C3_Witness ==
    /\ RangeDone
    /\ fromParam = dSlash
    /\ toParam = d1130
    /\ response.status = 400
    /\ fetchCalls = 0

\* the tasks of the current batch that have not settled
InFlight == {k \in 1..Len(tasks) : tasks[k].pc # "done"}

\* C13: the range driver runs the days in batches of at most 5 in date
\* order: a step that starts per-day tasks starts at most 5 and finds every
\* task started before it settled and its summary pushed, so at most 5 tasks
\* are in flight at any time; and the summary lists the days in ascending
\* date order at every moment, whatever the order in which the tasks of a
\* batch settle.
C13_BatchesInOrder ==
    /\ [][(mode = "range" /\ fetchCalls' > fetchCalls) =>
            /\ fetchCalls' - fetchCalls <= 5
            /\ InFlight = {}
            /\ Len(summary) = fetchCalls]_vars
    /\ [](mode = "range" =>
            /\ Cardinality(InFlight) <= 5
            /\ fetchCalls - Len(summary) <= 5
            /\ summary # <<>> =>
                  /\ ValidRange(fromParam, toParam)
                  /\ Len(summary) <= Len(DaysOfRange(fromParam, toParam))
                  /\ [k \in 1..Len(summary) |-> summary[k].date]
                        = SubSeq(DaysOfRange(fromParam, toParam), 1, Len(summary)))

\* C13 witness: in the first batch of a six-day range the fifth day has
\* settled while the first is still at its fetch.
C13_Witness ==
    /\ mode = "range"
    /\ apiPc = "await"
    /\ Len(dates) = 6
    /\ Len(tasks) = 5
    /\ tasks[5].pc = "done"
    /\ tasks[1].pc = "fetch"
    /\ summary = <<>>

\* C4: in single-day mode with a valid date parameter, fecha is that date,
\* whatever dates the document text holds.
C4_SuppliedDateWins ==
    (/\ mode = "single"
     /\ apiPc = "done"
     /\ response.status = 200
     /\ dateParam \in ValidDates) => response.fecha = dateParam

(***************************************************************************)
(* Properties of extractDate (SpecDate).  The date each piece of the pool  *)
(* denotes is written down here, not computed by the model's functions.    *)
(***************************************************************************)
ymd20251121 == <<"2", "0", "2", "5", "-", "1", "1", "-", "2", "1">>
ymd20251120 == <<"2", "0", "2", "5", "-", "1", "1", "-", "2", "0">>
ymd20250105 == <<"2", "0", "2", "5", "-", "0", "1", "-", "0", "5">>

\* the pieces that are a date of one of the three shapes
DateParts == {tSlash, tSlashShort, tIso, tIsoShort, tDeMonth}

\* the date a piece denotes, as YYYY-MM-DD
NormalizedDate(part) ==
    CASE part = tSlash -> ymd20251121
      [] part = tIso -> ymd20251120
      [] part \in {tSlashShort, tIsoShort, tDeMonth} -> ymd20250105

\* the positions of the dates among the pieces of the text
DatePositions == {k \in 1..Len(dateParts) : dateParts[k] \in DateParts}

\* the first date of the text
FirstDatePart == dateParts[CHOOSE k \in DatePositions : \A j \in DatePositions : k <= j]

\* C14 as stated: for a text with a date of one of the three shapes
\* (DD/MM/YYYY, YYYY-MM-DD with one- or two-digit month and day, "D de
\* <month> de YYYY") extractDate returns the first such date as YYYY-MM-DD,
\* and it returns null only when the text holds no such date.
C14_NormalizedFirstDate ==
    dateResult # <<>> =>
        IF DatePositions = {}
        THEN dateResult[1] = NullStr
        ELSE dateResult[1] = NormalizedDate(FirstDatePart)

=============================================================================
